---- MODULE Spec2Model ----
(***************************************************************************)
(* Model of blob/merkle.go: the digest algebra (hashLeaf, hashLevel and    *)
(* the precomputes table), the tree builder, the base, the sector proof    *)
(* protocol and the wire codecs.                                           *)
(*                                                                         *)
(* Digests.  crypto.Blake2B256 is taken to be collision-free, so a digest  *)
(* is represented by the canonical term of what was hashed:                *)
(*   <<"L", c>>     Blake2B256 of the 4096-byte block with content id c>0  *)
(*   <<"N", l, r>>  Blake2B256 of the 64 bytes l ++ r                      *)
(*   <<"Z", k>>     the digest of the all-zero subtree of 2^k subsectors:  *)
(*                  k = 0 is Blake2B256 of 4096 zero bytes, and            *)
(*                  <<"Z", k+1>> is Blake2B256(<<"Z",k>> ++ <<"Z",k>>)     *)
(*   <<"J", j>>     a 32-byte value that is not the digest of any input    *)
(*                  the model hashes                                       *)
(* The byte literals of lines 27-45 are the values <<"Z", 0>> .. <<"Z",12>>*)
(* (line 42 is Blake2b-256 of 4096 zero bytes and every table value is     *)
(* Blake2b-256 of its key written twice).                                  *)
(*                                                                         *)
(* A slice is a sequence; Go's index i is the sequence's index i + 1.      *)
(***************************************************************************)
EXTENDS Integers, Sequences, FiniteSets, TLC

(* ---------------------------------------------------------------------- *)
(* Program constants                                                      *)
(* ---------------------------------------------------------------------- *)
MerkleTreeHeight == 8
SubsectorSize == 4096
SubsectorProofLevel == 8
HashLen == 32
BaseLen == 256
MaxTreeDepth == 32

\* blob.Size and blob.SectorLen: 16 MiB blobs of 256 sectors of 64 KiB.
Size == 16777216
SectorLen == 65536
SubsectorCountBlob == Size \div SubsectorSize
SubsectorCountSector == SectorLen \div SubsectorSize

(* ---------------------------------------------------------------------- *)
(* Helpers for Go's integer types and slices                              *)
(* ---------------------------------------------------------------------- *)
At(s, i) == s[i + 1]

InRange(s, i) == i >= 0 /\ i < Len(s)

Uint8(x) == x % 256

RECURSIVE Pow2(_)
Pow2(n) == IF n = 0 THEN 1 ELSE 2 * Pow2(n - 1)

\* A 64-bit Go int or uint64 is the set of the positions (0..63) of the one
\* bits of its two's complement representation; bit 63 is the sign of an int.
\* Int64(n) is the int n for 0 <= n < 2^31.
RECURSIVE Bits(_, _)
Bits(n, i) ==
    IF n = 0 THEN {} ELSE (IF n % 2 = 1 THEN {i} ELSE {}) \cup Bits(n \div 2, i + 1)

Int64(n) == Bits(n, 0)

\* uint64(x) of an int x keeps the 64 bits.
Uint64(x) == x

\* bits.OnesCount64
OnesCount64(x) == Cardinality(x)

IsNegative(x) == 63 \in x

\* x > math.MaxUint32 for an int x
GtMaxUint32(x) == ~IsNegative(x) /\ \E i \in x : i >= 32

RECURSIVE IntValue(_)
\* The value of an int 0 <= x < 2^31.
IntValue(x) ==
    IF x = {} THEN 0
    ELSE LET k == CHOOSE i \in x : TRUE IN Pow2(k) + IntValue(x \ {k})

\* x <= n for an int x and a length 0 <= n < 2^31.
LeInt(x, n) == IsNegative(x) \/ ((\A i \in x : i <= 30) /\ IntValue(x) <= n)

(* ---------------------------------------------------------------------- *)
(* Digest algebra                                                         *)
(* ---------------------------------------------------------------------- *)
zero4kSector == 0

IsZ(d) == d[1] = "Z"

\* crypto.Blake2B256 of one subsector-sized block.
Blake2B256Leaf(in) == IF in = zero4kSector THEN <<"Z", 0>> ELSE <<"L", in>>

\* crypto.Blake2B256(left[:], right[:]).
Blake2B256(left, right) ==
    IF IsZ(left) /\ left = right THEN <<"Z", left[2] + 1>> ELSE <<"N", left, right>>

zero4kSectorHash == <<"Z", 0>>

PrecomputeLen == 12

\* The table with the value of its sixth entry taken from the seventh.
precomputesSkewed ==
    [d \in {<<"Z", k>> : k \in 0..(PrecomputeLen - 1)} |->
        IF d[2] = 5 THEN <<"Z", 7>> ELSE <<"Z", d[2] + 1>>]

precomputes == [d \in {<<"Z", k>> : k \in 0..(PrecomputeLen - 1)} |-> <<"Z", d[2] + 1>>]

EmptyBlobMerkleRoot == <<"Z", 12>>

EmptyBlobBaseHash == <<"Z", 4>>

hashLeaf(in) == IF in = zero4kSector THEN zero4kSectorHash ELSE Blake2B256Leaf(in)

\* hashLevel without the left == right test.
hashLevelNoEqualityTest(left, right) ==
    LET hasPrecomp == left \in DOMAIN precomputes
    IN  IF hasPrecomp THEN precomputes[left] ELSE Blake2B256(left, right)

hashLevel(left, right) ==
    LET hasPrecomp == left \in DOMAIN precomputes
    IN  IF hasPrecomp /\ left = right THEN precomputes[left] ELSE Blake2B256(left, right)

(* ---------------------------------------------------------------------- *)
(* Tree builder                                                           *)
(* ---------------------------------------------------------------------- *)
\* A reader holding n full leaf-sized blocks followed by tail more bytes
\* (fewer than a block). Block i (from 0) has content dirty[i], or is all
\* zero when i is not in DOMAIN dirty.
Reader(n, dirty, tail) == [n |-> n, dirty |-> dirty, tail |-> tail]

BlockAt(r, i) == IF i \in DOMAIN r.dirty THEN r.dirty[i] ELSE zero4kSector

NilTree == <<>>

\* One pass of the outer loop of newMerkleTreeFromHashedLeaves: the level
\* above tree[0].
NextLevel(level) ==
    [i \in 1..(Len(level) \div 2) |-> hashLevel(level[2 * i - 1], level[2 * i])] \o <<>>

RECURSIVE GrowTree(_)
GrowTree(tree) ==
    IF Len(tree[1]) > 1 THEN GrowTree(<<NextLevel(tree[1])>> \o tree) ELSE tree

newMerkleTreeFromHashedLeaves(base) ==
    IF OnesCount64(Uint64(Int64(Len(base)))) # 1
    THEN [tree |-> NilTree, err |-> "base must have a power of two length"]
    ELSE [tree |-> GrowTree(<<base>>), err |-> "nil"]

\* The loop ending without an error when the input runs out.
ReadLeavesUntilEOF(r, leafCount, leafSize) ==
    LET full == r.n
    IN  IF IsNegative(leafCount)
        THEN [base |-> <<>>, consumed |-> 0, err |-> "nil"]
        ELSE IF LeInt(leafCount, full)
        THEN [base |-> [i \in 1..IntValue(leafCount) |-> hashLeaf(BlockAt(r, i - 1))] \o <<>>,
              consumed |-> IntValue(leafCount) * leafSize, err |-> "nil"]
        ELSE [base |-> [i \in 1..full |-> hashLeaf(BlockAt(r, i - 1))] \o <<>>,
              consumed |-> full * leafSize + r.tail, err |-> "nil"]

\* The loop of NewMerkleTreeFromReader: io.ReadFull(r, buf), len(buf) =
\* leafSize, once per i < leafCount until one fails. ReadFull fails with EOF
\* when no byte is left and with ErrUnexpectedEOF when fewer than len(buf)
\* are; either way it has consumed what was left.
ReadLeaves(r, leafCount, leafSize) ==
    LET full == r.n
    IN  IF IsNegative(leafCount)
        THEN [base |-> <<>>, consumed |-> 0, err |-> "nil"]
        ELSE IF LeInt(leafCount, full)
        THEN [base |-> [i \in 1..IntValue(leafCount) |-> hashLeaf(BlockAt(r, i - 1))] \o <<>>,
              consumed |-> IntValue(leafCount) * leafSize, err |-> "nil"]
        ELSE [base |-> [i \in 1..full |-> hashLeaf(BlockAt(r, i - 1))] \o <<>>,
              consumed |-> full * leafSize + r.tail,
              err |-> IF r.tail = 0 THEN "EOF" ELSE "unexpected EOF"]

NewMerkleTreeFromReader(r, leafCount, leafSize) ==
    IF GtMaxUint32(leafCount)
    THEN [tree |-> NilTree, err |-> "leafCount must be less than math.MaxUint32",
          consumed |-> 0]
    ELSE IF OnesCount64(Uint64(leafCount)) # 1
    THEN [tree |-> NilTree, err |-> "leafCount must be a power of two", consumed |-> 0]
    ELSE LET rd == ReadLeaves(r, leafCount, leafSize)
         IN  IF rd.err # "nil"
             THEN [tree |-> NilTree, err |-> rd.err, consumed |-> rd.consumed]
             ELSE LET res == newMerkleTreeFromHashedLeaves(rd.base)
                  IN  [tree |-> res.tree, err |-> res.err, consumed |-> rd.consumed]

Root(t) == At(At(t, 0), 0)

Height(t) == Len(t) - 1

Level(t, i) == At(t, i)

\* The bytes of a sector as a reader: SubsectorCountSector blocks.
SectorReader(sector) ==
    Reader(Len(sector), [i \in {j \in 0..(Len(sector) - 1) : sector[j + 1] # zero4kSector}
                            |-> sector[i + 1]], 0)

\* HashSector reading half as many subsectors.
HashSectorHalf(sector) ==
    LET res == NewMerkleTreeFromReader(SectorReader(sector),
                                       Int64(SubsectorCountSector \div 2), SubsectorSize)
    IN  IF res.err # "nil" THEN "panic" ELSE Root(res.tree)

HashSector(sector) ==
    LET res == NewMerkleTreeFromReader(SectorReader(sector),
                                       Int64(SubsectorCountSector), SubsectorSize)
    IN  IF res.err # "nil" THEN "panic" ELSE Root(res.tree)

Merkleize(br) == NewMerkleTreeFromReader(br, Int64(SubsectorCountBlob), SubsectorSize)

MakeTreeFromBase(base) ==
    LET res == newMerkleTreeFromHashedLeaves(base)
    IN  IF res.err # "nil" THEN "panic" ELSE res.tree

\* The zero value of crypto.Hash: 32 zero bytes.
ZeroHash == <<"J", 0>>

\* ProtocolBase whose copy loop stops one entry early.
ProtocolBaseShort(t) ==
    IF ~InRange(t, 8) THEN "panic"
    ELSE LET data == Level(t, 8)
         IN  IF Len(data) # BaseLen THEN "panic"
             ELSE [i \in 1..BaseLen |-> IF i < BaseLen THEN data[i] ELSE ZeroHash] \o <<>>

ProtocolBase(t) ==
    IF ~InRange(t, 8) THEN "panic"
    ELSE LET data == Level(t, 8)
         IN  IF Len(data) # BaseLen THEN "panic"
             ELSE [i \in 1..BaseLen |-> data[i]] \o <<>>

(* ---------------------------------------------------------------------- *)
(* Sector proofs                                                          *)
(* ---------------------------------------------------------------------- *)
\* A proof is its 8 digests in order (each stands for its 32 bytes).
RECURSIVE MakeSectorProofLoop(_, _, _, _)
MakeSectorProofLoop(t, i, pos, buf) ==
    IF i < 1 THEN [panic |-> FALSE, proof |-> buf]
    ELSE IF ~InRange(t, i) THEN [panic |-> TRUE, proof |-> buf]
    ELSE LET level == At(t, i)
             sib == IF pos % 2 = 0 THEN Uint8(pos + 1) ELSE Uint8(pos - 1)
         IN  IF ~InRange(level, sib) THEN [panic |-> TRUE, proof |-> buf]
             ELSE MakeSectorProofLoop(t, i - 1, pos \div 2, Append(buf, At(level, sib)))

\* MakeSectorProof taking level[pos+1] at every level.
RECURSIVE MakeSectorProofRightLoop(_, _, _, _)
MakeSectorProofRightLoop(t, i, pos, buf) ==
    IF i < 1 THEN [panic |-> FALSE, proof |-> buf]
    ELSE IF ~InRange(t, i) THEN [panic |-> TRUE, proof |-> buf]
    ELSE LET level == At(t, i)
             sib == Uint8(pos + 1)
         IN  IF ~InRange(level, sib) THEN [panic |-> TRUE, proof |-> buf]
             ELSE MakeSectorProofRightLoop(t, i - 1, pos \div 2,
                                           Append(buf, At(level, sib)))

MakeSectorProofRight(t, sectorID) ==
    MakeSectorProofRightLoop(t, SubsectorProofLevel, sectorID, <<>>)

MakeSectorProof(t, sectorID) ==
    MakeSectorProofLoop(t, SubsectorProofLevel, sectorID, <<>>)

RECURSIVE VerifyLoop(_, _, _, _)
VerifyLoop(i, currHash, pos, proof) ==
    IF i >= MerkleTreeHeight THEN [ok |-> TRUE, hash |-> currHash]
    ELSE IF ~InRange(proof, i) THEN [ok |-> FALSE, hash |-> currHash]
    ELSE LET proofHash == At(proof, i)
         IN  VerifyLoop(i + 1,
                        IF pos % 2 = 0 THEN hashLevel(currHash, proofHash)
                                       ELSE hashLevel(proofHash, currHash),
                        pos \div 2, proof)

\* VerifySectorProof putting currHash on the left at every level.
RECURSIVE VerifyLeftLoop(_, _, _, _)
VerifyLeftLoop(i, currHash, pos, proof) ==
    IF i >= MerkleTreeHeight THEN [ok |-> TRUE, hash |-> currHash]
    ELSE IF ~InRange(proof, i) THEN [ok |-> FALSE, hash |-> currHash]
    ELSE VerifyLeftLoop(i + 1, hashLevel(currHash, At(proof, i)), pos \div 2, proof)

VerifySectorProofLeft(sector, sectorID, merkleRoot, proof) ==
    LET res == VerifyLeftLoop(0, HashSector(sector), sectorID, proof)
    IN  res.ok /\ res.hash = merkleRoot

VerifySectorProof(sector, sectorID, merkleRoot, proof) ==
    LET res == VerifyLoop(0, HashSector(sector), sectorID, proof)
    IN  res.ok /\ res.hash = merkleRoot

(* ---------------------------------------------------------------------- *)
(* Tree wire format                                                       *)
(* ---------------------------------------------------------------------- *)
\* The wire of a tree is a sequence of items: the height byte, then digests
\* (each digest stands for its 32 bytes; crypto.Hash.Decode reads a whole
\* digest or fails).
RECURSIVE EncodeLevels(_, _)
EncodeLevels(t, i) == IF i < 0 THEN <<>> ELSE At(t, i) \o EncodeLevels(t, i - 1)

\* Encode writing the levels root first.
RECURSIVE EncodeLevelsRootFirst(_, _)
EncodeLevelsRootFirst(t, i) ==
    IF i > Len(t) - 1 THEN <<>> ELSE At(t, i) \o EncodeLevelsRootFirst(t, i + 1)

EncodeRootFirst(t) == <<Uint8(Height(t))>> \o EncodeLevelsRootFirst(t, 0)

\* MerkleTree.Encode into a writer that does not fail.
Encode(t) == <<Uint8(Height(t))>> \o EncodeLevels(t, Len(t) - 1)

\* The loop of MerkleTree.Decode with toRead = 2^e; rest is the unread wire.
RECURSIVE DecodeLoop(_, _, _)
DecodeLoop(rest, e, t) ==
    IF e > 30 \/ Len(rest) < Pow2(e)
    THEN [tree |-> NilTree, err |-> IF rest = <<>> THEN "EOF" ELSE "unexpected EOF"]
    ELSE LET level == SubSeq(rest, 1, Pow2(e))
             grown == <<level>> \o t
         IN  IF Pow2(e) = 1 THEN [tree |-> grown, err |-> "nil"]
             ELSE DecodeLoop(SubSeq(rest, Pow2(e) + 1, Len(rest)), e - 1, grown)

\* MerkleTree.Decode: the tree stored in the receiver and the error.
Decode(w) ==
    IF w = <<>> THEN [tree |-> NilTree, err |-> "EOF"]
    ELSE LET height == w[1]
         IN  IF height > MaxTreeDepth
             THEN [tree |-> NilTree, err |-> "refusing decode tree over 32 levels deep"]
             ELSE DecodeLoop(Tail(w), Uint8(height), NilTree)

(* ---------------------------------------------------------------------- *)
(* Base wire format, byte by byte                                         *)
(* ---------------------------------------------------------------------- *)
\* Here a digest is its HashLen bytes and a reader is the sequence of its
\* bytes and the most bytes it hands out per Read (chunk).
ZeroMerkleBase == [i \in 1..BaseLen |-> [j \in 1..HashLen |-> 0]]

\* MerkleBase.Encode into a writer that does not fail: the digests' bytes
\* one after the other.
BaseEncode(m) ==
    [k \in 1..(Len(m) * HashLen) |->
        m[((k - 1) \div HashLen) + 1][((k - 1) % HashLen) + 1]] \o <<>>

Min(a, b) == IF a < b THEN a ELSE b

\* r.Read(hash[:]) at offset off of the bytes w: the count read (0 with
\* io.EOF when nothing is left).
ReadCount(w, off, c) == Min(Min(HashLen, c), Len(w) - off)

\* Passes i .. stop-1 of the loop of MerkleBase.Decode: hash keeps, past
\* the bytes a Read delivered, what the pass before left in it.
RECURSIVE BaseDecodeLoop(_, _, _, _, _)
BaseDecodeLoop(w, c, i, stop, st) ==
    IF i >= stop \/ ~st.ok THEN st
    ELSE LET n == ReadCount(w, st.off, c)
         IN  IF n = 0 THEN [st EXCEPT !.ok = FALSE]
             ELSE LET h == [j \in 1..HashLen |->
                               IF j <= n THEN w[st.off + j] ELSE st.hash[j]] \o <<>>
                  IN  BaseDecodeLoop(w, c, i + 1, stop,
                                     [ok |-> TRUE, off |-> st.off + n, hash |-> h,
                                      res |-> Append(st.res, h)])

\* The whole loop, HashLen passes at a time.
RECURSIVE BaseDecodePasses(_, _, _, _)
BaseDecodePasses(w, c, i, st) ==
    IF i >= BaseLen \/ ~st.ok THEN st
    ELSE LET next == BaseDecodeLoop(w, c, i, Min(i + HashLen, BaseLen), st)
         IN  IF next.ok THEN BaseDecodePasses(w, c, i + HashLen, next) ELSE next

\* MerkleBase.Decode on receiver m: the receiver afterwards, the error and
\* the bytes consumed.
BaseDecode(m, w, c) ==
    LET r == BaseDecodePasses(w, c, 0, [ok |-> TRUE, off |-> 0,
                                        hash |-> [j \in 1..HashLen |-> 0], res |-> <<>>])
    IN  IF r.ok THEN [m |-> r.res, err |-> "nil", consumed |-> r.off]
        ELSE [m |-> m, err |-> "EOF", consumed |-> r.off]

(* ---------------------------------------------------------------------- *)
(* Inputs                                                                 *)
(* ---------------------------------------------------------------------- *)
\* Block contents are 0 (all zero) .. MaxContent.
MaxContent == 2

\* Digests <<"J", 1>> .. <<"J", MaxJunk>> are values an adversary injects.
MaxJunk == 1

\* The sets of (0-based) subsector indices a blob is non-zero at: sectors 0
\* and 1 are siblings at the base, sector 255 is the last one.
DirtySets == {{}, {0}, {0, 16}, {4095}, {16, 4095}}

BlobReaders ==
    {Reader(SubsectorCountBlob, d, 0) :
        d \in UNION {[S -> 1..MaxContent] : S \in DirtySets}}

\* Sector p of a blob: blocks p*SubsectorCountSector .. +SubsectorCountSector-1.
SectorOf(r, p) ==
    [k \in 1..SubsectorCountSector |-> BlockAt(r, p * SubsectorCountSector + k - 1)]

\* The positions at which tampered verifications are tried: fewer for the
\* tree of a whole blob than for the tree regrown from its base.
TamperPositions(t) ==
    IF Height(t) = MerkleTreeHeight THEN {0, 1, 2, 128, 254, 255} ELSE {1, 255}

\* The digests an adversary substitutes for entry j (from 0) of a proof.
Substitutes(j) ==
    {<<"J", k>> : k \in 1..MaxJunk} \cup {<<"Z", j + 4>>, zero4kSectorHash}

VARIABLES
    pc,         \* the operation that ran last
    rdr,        \* the reader handed to the tree builder
    leafCount,  \* the leafCount argument
    tree,       \* the MerkleTree under consideration (NilTree: none)
    err,        \* the error the last operation returned ("nil": none)
    consumed,   \* bytes the last operation read from rdr
    sectorID,   \* the position MakeSectorProof was called with
    sector,     \* the sector of the blob at sectorID
    proof,      \* the result of MakeSectorProof
    panicked,   \* whether the last operation panicked
    vSector, vID, vProof,   \* the arguments of VerifySectorProof
    accepted,   \* its result
    base,       \* a MerkleBase (<<>>: none)
    tree2,      \* a second MerkleTree: regrown from base, or decoded from wire
    sectorHash, \* the result of HashSector
    wire,       \* the bytes written by an Encode and read by a Decode
    chunk,      \* the most bytes one Read of the wire's reader returns
    recv        \* the MerkleBase that MerkleBase.Decode is called on

vars == <<pc, rdr, leafCount, tree, err, consumed, sectorID, sector, proof,
          panicked, vSector, vID, vProof, accepted, base, tree2, sectorHash,
          wire, chunk, recv>>

proofVars == <<sectorID, sector, proof, vSector, vID, vProof, accepted>>

baseVars == <<base, tree2, sectorHash>>

wireVars == <<wire, chunk, recv>>

NoBase ==
    /\ base = <<>>
    /\ tree2 = NilTree
    /\ sectorHash = <<>>

NoWire ==
    /\ wire = <<>>
    /\ chunk = 0
    /\ recv = <<>>

NoProof ==
    /\ sectorID = 0
    /\ sector = <<>>
    /\ proof = <<>>
    /\ vSector = <<>>
    /\ vID = 0
    /\ vProof = <<>>
    /\ accepted = FALSE

(* ---------------------------------------------------------------------- *)
(* Sector proof protocol: Merkleize, optionally regrow the tree from its   *)
(* base, MakeSectorProof, VerifySectorProof                               *)
(* ---------------------------------------------------------------------- *)
InitProof ==
    /\ pc = "start"
    /\ rdr \in BlobReaders
    /\ leafCount = Int64(SubsectorCountBlob)
    /\ tree = NilTree
    /\ err = "nil"
    /\ consumed = 0
    /\ panicked = FALSE
    /\ NoProof
    /\ NoBase
    /\ NoWire

MerkleizeStep ==
    /\ pc = "start"
    /\ LET res == Merkleize(rdr)
       IN  /\ tree' = res.tree
           /\ err' = res.err
           /\ consumed' = res.consumed
    /\ pc' = "tree"
    /\ UNCHANGED <<rdr, leafCount, panicked>>
    /\ UNCHANGED <<proofVars, baseVars, wireVars>>

\* MakeTreeFromBase(tree.ProtocolBase())
RegrowStep ==
    /\ pc = "tree"
    /\ err = "nil"
    /\ Height(tree) > MerkleTreeHeight
    /\ tree' = MakeTreeFromBase(ProtocolBase(tree))
    /\ UNCHANGED <<pc, rdr, leafCount, err, consumed, panicked>>
    /\ UNCHANGED <<proofVars, baseVars, wireVars>>

MakeSectorProofStep ==
    /\ pc = "tree"
    /\ err = "nil"
    /\ \E p \in 0..255 :
          LET res == MakeSectorProof(tree, p)
          IN  /\ sectorID' = p
              /\ sector' = SectorOf(rdr, p)
              /\ proof' = res.proof
              /\ panicked' = res.panic
    /\ pc' = "proved"
    /\ UNCHANGED <<rdr, leafCount, tree, err, consumed, vSector, vID, vProof, accepted>>
    /\ UNCHANGED <<baseVars, wireVars>>

Verify(s, q, pr) ==
    /\ pc = "proved"
    /\ ~panicked
    /\ vSector' = s
    /\ vID' = q
    /\ vProof' = pr
    /\ accepted' = VerifySectorProof(s, q, Root(tree), pr)
    /\ pc' = "verified"
    /\ UNCHANGED <<rdr, leafCount, tree, err, consumed, sectorID, sector, proof, panicked>>
    /\ UNCHANGED <<baseVars, wireVars>>

\* The sector, position and proof as produced.
VerifyHonest == Verify(sector, sectorID, proof)

\* The sector and its proof presented at another position.
VerifyAt ==
    /\ pc = "proved"
    /\ sectorID \in TamperPositions(tree)
    /\ \E q \in 0..255 : q # sectorID /\ Verify(sector, q, proof)

\* Another sector of the blob at its own position, with this proof.
VerifyForeign ==
    /\ pc = "proved"
    /\ sectorID \in TamperPositions(tree)
    /\ \E q \in 0..255 : q # sectorID /\ Verify(SectorOf(rdr, q), q, proof)

\* One subsector of the sector changed.
VerifyTamperedSector ==
    /\ pc = "proved"
    /\ sectorID \in TamperPositions(tree)
    /\ \E k \in 1..SubsectorCountSector, c \in 0..MaxContent :
          c # sector[k] /\ Verify([sector EXCEPT ![k] = c], sectorID, proof)

\* One digest of the proof replaced.
VerifyTamperedProof ==
    /\ pc = "proved"
    /\ sectorID \in TamperPositions(tree)
    /\ ~panicked
    /\ \E j \in 0..(MerkleTreeHeight - 1) : \E d \in Substitutes(j) :
          d # At(proof, j) /\ Verify(sector, sectorID, [proof EXCEPT ![j + 1] = d])

NextProof ==
    \/ MerkleizeStep
    \/ RegrowStep
    \/ MakeSectorProofStep
    \/ VerifyHonest
    \/ VerifyAt
    \/ VerifyForeign
    \/ VerifyTamperedSector
    \/ VerifyTamperedProof

SpecProof == InitProof /\ [][NextProof]_vars

(* ---------------------------------------------------------------------- *)
(* Base extraction: build a tree, ProtocolBase, MakeTreeFromBase,          *)
(* HashSector                                                             *)
(* ---------------------------------------------------------------------- *)
\* The heights of the trees built for base extraction.
BaseHeights == {7, 8, 9, 12}

\* Non-zero blocks of the shorter inputs.
SmallDirtySets == {{}, {0}, {1, 2}, {127}}

BaseReaders ==
    BlobReaders \cup
    {Reader(Pow2(h), d, 0) :
        h \in BaseHeights \ {12},
        d \in UNION {[S -> 1..MaxContent] : S \in SmallDirtySets}}

InitBlob ==
    /\ pc = "start"
    /\ rdr \in BaseReaders
    /\ leafCount = Int64(rdr.n)
    /\ tree = NilTree
    /\ err = "nil"
    /\ consumed = 0
    /\ panicked = FALSE
    /\ NoProof
    /\ NoBase
    /\ NoWire

\* NewMerkleTreeFromReader(rdr, leafCount, SubsectorSize); Merkleize when
\* leafCount is SubsectorCountBlob.
BuildStep ==
    /\ pc = "start"
    /\ LET res == NewMerkleTreeFromReader(rdr, leafCount, SubsectorSize)
       IN  /\ tree' = res.tree
           /\ err' = res.err
           /\ consumed' = res.consumed
    /\ pc' = "tree"
    /\ UNCHANGED <<rdr, leafCount, panicked>>
    /\ UNCHANGED <<proofVars, baseVars, wireVars>>

ProtocolBaseStep ==
    /\ pc = "tree"
    /\ err = "nil"
    /\ LET out == ProtocolBase(tree)
       IN  /\ panicked' = (out = "panic")
           /\ base' = IF out = "panic" THEN <<>> ELSE out
    /\ pc' = "base"
    /\ UNCHANGED <<rdr, leafCount, tree, err, consumed, tree2, sectorHash>>
    /\ UNCHANGED <<proofVars, wireVars>>

MakeTreeFromBaseStep ==
    /\ pc = "base"
    /\ ~panicked
    /\ LET t == MakeTreeFromBase(base)
       IN  /\ panicked' = (t = "panic")
           /\ tree2' = IF t = "panic" THEN NilTree ELSE t
    /\ pc' = "regrown"
    /\ UNCHANGED <<rdr, leafCount, tree, err, consumed, base, sectorHash>>
    /\ UNCHANGED <<proofVars, wireVars>>

\* HashSector of sector p of a blob of 256 sectors.
HashSectorStep ==
    /\ pc = "base"
    /\ ~panicked
    /\ rdr.n = 256 * SubsectorCountSector
    /\ \E p \in 0..255 :
          /\ sectorID' = p
          /\ sector' = SectorOf(rdr, p)
          /\ sectorHash' = HashSector(SectorOf(rdr, p))
    /\ pc' = "hashed"
    /\ UNCHANGED <<rdr, leafCount, tree, err, consumed, panicked, base, tree2>>
    /\ UNCHANGED <<proof, vSector, vID, vProof, accepted, wireVars>>

NextBlob ==
    \/ BuildStep
    \/ ProtocolBaseStep
    \/ MakeTreeFromBaseStep
    \/ HashSectorStep

SpecBlob == InitBlob /\ [][NextBlob]_vars

\* C4: for a blob of 256 sectors of SubsectorCountSector subsectors, entry
\* p of Merkleize(blob).ProtocolBase() is HashSector of sector p.
C4_SectorHashIsBaseEntry ==
    pc = "hashed" =>
        /\ SubsectorCountBlob = 256 * SubsectorCountSector
        /\ sectorHash # "panic"
        /\ At(base, sectorID) = sectorHash

\* The hash of a non-zero sector, the last of its blob, was compared.
C4_Witness ==
    /\ pc = "hashed"
    /\ sectorID = 255
    /\ sectorHash # EmptyBlobBaseHash
    /\ At(base, sectorID) = sectorHash

\* C5: for a built tree of height >= 8, ProtocolBase does not panic and
\* MakeTreeFromBase of it has height 8, the same root and the same levels
\* 0..8.
C5_BaseRoundTrip ==
    /\ (pc = "base" /\ Height(tree) >= 8) => ~panicked /\ Len(base) = BaseLen
    /\ pc = "regrown" =>
          /\ ~panicked
          /\ Height(tree2) = 8
          /\ Root(tree2) = Root(tree)
          /\ \A i \in 0..8 : Level(tree2, i) = Level(tree, i)

\* A tree was regrown from the base of a taller tree of a non-zero input.
C5_Witness ==
    /\ pc = "regrown"
    /\ Height(tree) = 9
    /\ rdr.dirty # <<>>
    /\ Root(tree2) = Root(tree)

(* ---------------------------------------------------------------------- *)
(* Tree construction: NewMerkleTreeFromReader on arbitrary arguments      *)
(* ---------------------------------------------------------------------- *)
\* Readers hold 0..MaxBlocks full blocks.
MaxBlocks == 5

\* All-zero inputs of 2^0 .. 2^MaxZeroHeight blocks.
MaxZeroHeight == 13

\* Trailing bytes after the full blocks.
Tails == {0, 1, SubsectorSize - 1}

\* leafCount arguments: 0 .. MaxBlocks + 3, -1, -2^63, -2^63 + 4, 2^31, 2^32,
\* 2^32 + 1 and 2^62.
LeafCounts ==
    {Int64(k) : k \in 0..(MaxBlocks + 3)}
        \cup {0..63, {63}, {63, 2}, {31}, {32}, {32, 0}, {62}}

BuildInputs ==
    {<<Reader(n, d, t), lc>> :
        n \in 0..MaxBlocks, d \in {<<>>} \cup {[i \in {0} |-> c] : c \in 1..MaxContent},
        t \in Tails, lc \in LeafCounts}
    \cup {<<Reader(Pow2(h), <<>>, 0), {h}>> : h \in 0..MaxZeroHeight}

InitBuild ==
    /\ pc = "start"
    /\ \E in \in BuildInputs :
          /\ in[1].n = 0 => in[1].dirty = <<>>
          /\ rdr = in[1]
          /\ leafCount = in[2]
    /\ tree = NilTree
    /\ err = "nil"
    /\ consumed = 0
    /\ panicked = FALSE
    /\ NoProof
    /\ NoBase
    /\ NoWire

NextBuild == BuildStep

SpecBuild == InitBuild /\ [][NextBuild]_vars

\* leafCount is one of 1, 2, 4, ...
IsPowerOfTwo(x) == ~IsNegative(x) /\ Cardinality(x) = 1

\* C8: a tree is returned only for a power-of-two leafCount of which exactly
\* leafCount full blocks were read; otherwise an error and no tree, and for
\* a leafCount that is no power of two nothing is read.
C8_ConstructionSuccess ==
    pc = "tree" =>
        /\ err = "nil" =>
              /\ IsPowerOfTwo(leafCount)
              /\ LeInt(leafCount, rdr.n)
              /\ tree # NilTree
              /\ consumed = IntValue(leafCount) * SubsectorSize
              /\ Level(tree, Height(tree)) =
                     [i \in 1..IntValue(leafCount) |-> hashLeaf(BlockAt(rdr, i - 1))]
        /\ err # "nil" => tree = NilTree
        /\ ~IsPowerOfTwo(leafCount) => err # "nil" /\ consumed = 0
        /\ ~LeInt(leafCount, rdr.n) => err # "nil"

\* An input that ends inside its fourth block was refused for leafCount 4.
C8_Witness ==
    /\ pc = "tree"
    /\ leafCount = Int64(4)
    /\ rdr.n = 3
    /\ rdr.tail > 0
    /\ err = "unexpected EOF"
    /\ tree = NilTree

\* Entry h of the chain that starts at zero4kSectorHash and follows the table.
RECURSIVE ChainEntry(_)
ChainEntry(h) == IF h = 0 THEN zero4kSectorHash ELSE precomputes[ChainEntry(h - 1)]

\* C6 as claimed: the tree of 2^H all-zero subsectors has root
\* EmptyBlobMerkleRoot for every accepted leaf count 2^H.
C6_EmptyRootAsClaimed ==
    (pc = "tree" /\ err = "nil" /\ rdr.dirty = <<>>) => Root(tree) = EmptyBlobMerkleRoot

\* C6 amended: the tree of 2^H all-zero subsectors has root entry H of the
\* precompute chain for H <= 12, and root EmptyBlobMerkleRoot exactly when
\* 2^H is SubsectorCountBlob.
C6_EmptyRoot ==
    (pc = "tree" /\ err = "nil" /\ rdr.dirty = <<>>) =>
        /\ Root(tree) = EmptyBlobMerkleRoot <=> leafCount = Int64(SubsectorCountBlob)
        /\ Height(tree) <= PrecomputeLen => Root(tree) = ChainEntry(Height(tree))

\* The tree of an all-zero blob was built.
C6_Witness ==
    /\ pc = "tree"
    /\ err = "nil"
    /\ rdr.dirty = <<>>
    /\ rdr.n = SubsectorCountBlob
    /\ Height(tree) = 12
    /\ Root(tree) = EmptyBlobMerkleRoot

(* ---------------------------------------------------------------------- *)
(* Tree codec: build a tree, Encode it, alter the wire, Decode            *)
(* ---------------------------------------------------------------------- *)
\* Trees of height 0 .. MaxWireHeight are encoded.
MaxWireHeight == 3

WireReaders ==
    {Reader(Pow2(h), d, 0) :
        h \in 0..MaxWireHeight,
        d \in {<<>>} \cup {[i \in {0} |-> c] : c \in 1..MaxContent}
                    \cup {[i \in {0, 1} |-> 1]}}

InitWire ==
    /\ pc = "start"
    /\ rdr \in {r \in WireReaders : \A i \in DOMAIN r.dirty : i < r.n}
    /\ leafCount = Int64(rdr.n)
    /\ tree = NilTree
    /\ err = "nil"
    /\ consumed = 0
    /\ panicked = FALSE
    /\ NoProof
    /\ NoBase
    /\ NoWire

EncodeStep ==
    /\ pc = "tree"
    /\ err = "nil"
    /\ wire' = Encode(tree)
    /\ pc' = "encoded"
    /\ UNCHANGED <<rdr, leafCount, tree, err, consumed, panicked, chunk, recv>>
    /\ UNCHANGED <<proofVars, baseVars>>

Alter(w) ==
    /\ pc = "encoded"
    /\ wire' = w
    /\ pc' = "altered"
    /\ UNCHANGED <<rdr, leafCount, tree, err, consumed, panicked, chunk, recv>>
    /\ UNCHANGED <<proofVars, baseVars>>

\* One digest of the wire replaced by another value.
AlterDigest ==
    /\ pc = "encoded"
    /\ \E k \in 2..Len(wire) :
          \E d \in {<<"J", j>> : j \in 1..MaxJunk} \cup {zero4kSectorHash} :
              d # wire[k] /\ Alter([wire EXCEPT ![k] = d])

\* The wire cut short.
AlterLength ==
    /\ pc = "encoded"
    /\ \E n \in 0..(Len(wire) - 1) : Alter(SubSeq(wire, 1, n))

\* The height byte replaced.
AlterHeight ==
    /\ pc = "encoded"
    /\ \E h \in 0..(MaxWireHeight + 1) \cup {MaxTreeDepth, MaxTreeDepth + 1, 255} :
          h # wire[1] /\ Alter([wire EXCEPT ![1] = h])

DecodeStep ==
    /\ pc \in {"encoded", "altered"}
    /\ LET res == Decode(wire)
       IN  /\ err' = res.err
           /\ tree2' = IF res.err = "nil" THEN res.tree ELSE tree2
    /\ pc' = "decoded"
    /\ UNCHANGED <<rdr, leafCount, tree, consumed, panicked, base, sectorHash>>
    /\ UNCHANGED <<proofVars, wireVars>>

NextWire ==
    \/ BuildStep
    \/ EncodeStep
    \/ AlterDigest
    \/ AlterLength
    \/ AlterHeight
    \/ DecodeStep

SpecWire == InitWire /\ [][NextWire]_vars

\* C7: Encode writes the height byte and then 2^(H+1)-1 digests, leaf level
\* first and root last, and Decode of what Encode wrote yields the same
\* levels and the same root.
C7_TreeWireRoundTrip ==
    /\ pc = "encoded" =>
          /\ Len(wire) = 1 + Pow2(Height(tree) + 1) - 1
          /\ wire[1] = Height(tree)
          /\ SubSeq(wire, 2, 1 + Pow2(Height(tree))) = Level(tree, Height(tree))
          /\ wire[Len(wire)] = Root(tree)
    /\ (pc = "decoded" /\ wire = Encode(tree)) =>
          /\ err = "nil"
          /\ Len(tree2) = Len(tree)
          /\ \A i \in 0..Height(tree) : Level(tree2, i) = Level(tree, i)
          /\ Root(tree2) = Root(tree)

\* The encoding of a non-zero tree of the greatest height was decoded.
C7_Witness ==
    /\ pc = "decoded"
    /\ wire = Encode(tree)
    /\ Height(tree) = MaxWireHeight
    /\ rdr.dirty # <<>>
    /\ err = "nil"
    /\ tree2 = tree

\* Level i has 2^i digests and every node is hashLevel of its two children.
WellFormed(t) ==
    /\ t # NilTree
    /\ \A i \in 0..Height(t) : Len(Level(t, i)) = Pow2(i)
    /\ \A i \in 0..(Height(t) - 1) : \A q \in 0..(Pow2(i) - 1) :
          At(Level(t, i), q) =
              hashLevel(At(Level(t, i + 1), 2 * q), At(Level(t, i + 1), 2 * q + 1))

\* C10: every tree that NewMerkleTreeFromReader returns and every tree
\* that a successful Decode stores is well-formed.
C10_TreeWellFormed ==
    /\ (pc \in {"tree", "encoded", "altered", "decoded"} /\ tree # NilTree)
          => WellFormed(tree)
    /\ (pc = "decoded" /\ err = "nil") => WellFormed(tree2)

(* ---------------------------------------------------------------------- *)
(* Base codec: Encode a base, cut the bytes short or not, Decode from a   *)
(* reader that hands out at most chunk bytes per Read                     *)
(* ---------------------------------------------------------------------- *)
\* Bytes are 0 .. MaxByte.
MaxByte == 3

\* Bases 0 .. MaxPattern are encoded.
MaxPattern == 1

\* Byte j of digest i of base k (both from 1).
PatternBase(k) ==
    [i \in 1..BaseLen |-> [j \in 1..HashLen |-> (i + j + k) % (MaxByte + 1)]]

\* The most bytes per Read: HashLen + 1 stands for a reader that always
\* fills the buffer while bytes are left (bytes.Reader).
Chunks == {1, HashLen \div 2, HashLen - 1, HashLen, HashLen + 1}

\* The lengths the encoded bytes are cut to.
CutLengths ==
    {0, 1, HashLen, (BaseLen \div 2) * HashLen, (BaseLen - 1) * HashLen,
     (BaseLen - 1) * HashLen + 1, BaseLen * HashLen - 1}

InitBase ==
    /\ pc = "start"
    /\ rdr = Reader(0, <<>>, 0)
    /\ leafCount = {}
    /\ tree = NilTree
    /\ err = "nil"
    /\ consumed = 0
    /\ panicked = FALSE
    /\ NoProof
    /\ \E k \in 0..MaxPattern : base = PatternBase(k)
    /\ tree2 = NilTree
    /\ sectorHash = <<>>
    /\ wire = <<>>
    /\ chunk \in Chunks
    /\ recv = ZeroMerkleBase

BaseEncodeStep ==
    /\ pc = "start"
    /\ wire' = BaseEncode(base)
    /\ pc' = "encoded"
    /\ UNCHANGED <<rdr, leafCount, tree, err, consumed, panicked, chunk, recv>>
    /\ UNCHANGED <<proofVars, baseVars>>

BaseDecodeStep ==
    /\ pc \in {"encoded", "altered"}
    /\ LET res == BaseDecode(recv, wire, chunk)
       IN  /\ recv' = res.m
           /\ err' = res.err
           /\ consumed' = res.consumed
    /\ pc' = "decoded"
    /\ UNCHANGED <<rdr, leafCount, tree, panicked, wire, chunk>>
    /\ UNCHANGED <<proofVars, baseVars>>

\* The encoded bytes cut short, or followed by HashLen more bytes.
BaseAlterLength ==
    /\ pc = "encoded"
    /\ \/ \E n \in CutLengths : Alter(SubSeq(wire, 1, n))
       \/ Alter(wire \o [j \in 1..HashLen |-> MaxByte])

NextBase ==
    \/ BaseEncodeStep
    \/ BaseAlterLength
    \/ BaseDecodeStep

SpecBase == InitBase /\ [][NextBase]_vars

\* The bytes w cut into digests of HashLen bytes.
Cut(w) == [i \in 1..BaseLen |-> [j \in 1..HashLen |-> w[(i - 1) * HashLen + j]]]

\* C9: MerkleBase.Decode succeeds only after reading 256 * 32 bytes, the
\* decoded Base is then those bytes cut into 256 digests, and an input of
\* fewer bytes gives an error and leaves the receiver as it was.
C9_BaseDecodeExact ==
    pc = "decoded" =>
        /\ err = "nil" => consumed = BaseLen * HashLen /\ recv = Cut(wire)
        /\ Len(wire) < BaseLen * HashLen => err # "nil" /\ recv = ZeroMerkleBase

\* C1: a sector whose hash is the entry of T.Level(8) at the position the
\* proof was made for verifies against T.Root() with that proof, and
\* MakeSectorProof does not index outside a level (no panic, 8 digests).
C1_ProofCompleteness ==
    /\ pc \in {"proved", "verified"} => ~panicked /\ Len(proof) = MerkleTreeHeight
    /\ (/\ pc = "verified"
        /\ vID = sectorID
        /\ vProof = proof
        /\ HashSector(vSector) = At(Level(tree, 8), vID))
       => accepted

\* A proof made for the last position of the tree of a non-zero blob was
\* accepted.
C1_Witness ==
    /\ pc = "verified"
    /\ Height(tree) > MerkleTreeHeight
    /\ rdr.dirty # <<>>
    /\ sectorID = 255
    /\ vID = 255
    /\ vSector = sector
    /\ vProof = proof
    /\ accepted

\* C2: at the position the proof was made for, verification accepts only
\* the sector hash the tree holds there together with the proof as made, so
\* a sector with a changed subsector or a proof with a replaced digest is
\* rejected.
C2_ProofSoundness ==
    (pc = "verified" /\ vID = sectorID) =>
        /\ accepted => /\ HashSector(vSector) = At(Level(tree, 8), sectorID)
                       /\ vProof = MakeSectorProof(tree, sectorID).proof
        /\ (vSector # sector \/ vProof # proof) => ~accepted

\* A proof with one digest replaced was rejected, and so was a sector with
\* one subsector changed.
C2_Witness ==
    /\ pc = "verified"
    /\ vID = sectorID
    /\ ~accepted
    /\ \/ vSector = sector /\ vProof # proof /\ vProof[1] = <<"J", 1>>
       \/ vSector # sector /\ vProof = proof /\ sectorID = 255

\* C3 as claimed: a sector and its proof never verify at another position.
C3_PositionBindingAsClaimed ==
    (pc = "verified" /\ vSector = sector /\ vProof = proof /\ vID # sectorID)
        => ~accepted

\* C3 amended: a sector and its proof verify at another position q exactly
\* when the tree holds the same sector hash at q and the proof for q is the
\* same 8 digests.
C3_PositionBinding ==
    (pc = "verified" /\ vSector = sector /\ vProof = proof /\ vID # sectorID)
        => (accepted <=> /\ At(Level(tree, 8), vID) = At(Level(tree, 8), sectorID)
                         /\ MakeSectorProof(tree, vID).proof = proof)

\* A sector of a non-zero blob and its proof were rejected at another position.
C3_Witness ==
    /\ pc = "verified"
    /\ vSector = sector
    /\ vProof = proof
    /\ vID # sectorID
    /\ rdr.dirty # <<>>
    /\ ~accepted

====
